---- MODULE Spec2Model ----
(***************************************************************************)
(* filebrowser_safe/base.py: FileListing (listing, walk, cached Entry      *)
(* collections, memoized counts, sort_by_attr) and FileObject (lazily      *)
(* cached metadata) over a storage backend.                                *)
(*                                                                         *)
(* Paths are sequences of name components; os.path.join(p, n) appends one  *)
(* component.  The storage backend is a directory tree: a node is          *)
(* [dirs |-> <<node, ...>>, files |-> n]; the i-th subdirectory of a node  *)
(* is called DirNames[i] and the j-th file of a node at depth k is called  *)
(* FileNames[k + j], both in the order the backend reports them.           *)
(*                                                                         *)
(* Spec: the FileListing methods in any order.  SpecWalk: walk() and       *)
(* listing() over every tree.  SpecSort: sort_by_attr and the sorting step.*)
(* SpecEntry: the cached attributes of a FileObject, datetime and delete().*)
(* SpecFile: url and is_empty.  SpecVersions: delete_versions() and        *)
(* delete_admin_versions().  SpecRecursion: walk() one _walk() frame at a  *)
(* time over trees with a symbolic link.                                   *)
(***************************************************************************)
EXTENDS Integers, Sequences, FiniteSets, TLC

\* ------------------------------------------------------------------ bounds
MaxSubdirs == 3      \* directories below the storage root, in total
MaxFiles == 1        \* files per directory
ListingSubdirs == 1  \* directories below the root in the Listing scenarios
MaxLen == 3          \* length of the sequences handed to sort_by_attr
MaxVal == 2          \* largest attribute value of an Entry in the sort scenarios
MaxSize == 1         \* largest file size and modification second default_storage reports
MaxVersions == 2     \* length of the lists versions() and admin_versions() hand out
WalkerSubdirs == 2   \* directories below the root where walk() runs step by step
RecursionLimit == 6  \* frames of _walk() the interpreter allows, above every acyclic depth

\* ------------------------------------------------------------- vocabulary
DirNames == <<"sub", "d2", "d3", "d4", "d5">>
FileNames == <<"a.txt", "b.txt", "c.txt", "d.txt", "e.txt", "f.txt", "g.txt", "h.txt">>
Directory == <<"root">>            \* site.directory, the configured root

None == -1                         \* an unset integer slot
Missing == -2                      \* an attribute the object does not have

Urls == <<"/media/a", "/cdn/a">>   \* what default_storage.url may answer for a path

Range(s) == {s[i] : i \in 1..Len(s)}

Reverse(s) == [i \in 1..Len(s) |-> s[Len(s) + 1 - i]]

IsPrefix(p, s) == Len(p) <= Len(s) /\ SubSeq(s, 1, Len(p)) = p

\* ---------------------------------------------------------------- storage
\* Forests (sequences of directory nodes) with exactly k directories.
RECURSIVE ForestsOf(_)
ForestsOf(k) ==
    IF k = 0 THEN {<<>>}
    ELSE UNION { { <<[dirs |-> sub, files |-> nf]>> \o rest :
                     sub \in ForestsOf(j), nf \in 0..MaxFiles,
                     rest \in ForestsOf(k - 1 - j) } : j \in 0..(k - 1) }

\* Storage trees with at most n directories below the root.
TreesUpTo(n) ==
    UNION { { [dirs |-> f, files |-> nf] : f \in ForestsOf(k), nf \in 0..MaxFiles } :
            k \in 0..n }

DirIndex(name) == CHOOSE i \in 1..Len(DirNames) : DirNames[i] = name

\* The node a path below Directory leads to; [dirs |-> <<>>, files |-> -1]
\* stands for "no directory there".
NoDir == [dirs |-> <<>>, files |-> -1]

RECURSIVE Descend(_, _)
Descend(node, rel) ==
    IF rel = <<>> THEN node
    ELSE IF \E i \in 1..Len(node.dirs) : DirNames[i] = rel[1]
         THEN Descend(node.dirs[DirIndex(rel[1])], Tail(rel))
         ELSE NoDir

NodeAt(t, p) ==
    IF IsPrefix(Directory, p)
    THEN Descend(t, SubSeq(p, Len(Directory) + 1, Len(p)))
    ELSE NoDir

\* storage.isdir(path)
isdir(t, p) == NodeAt(t, p) # NoDir

\* storage.listdir(path) of a directory: (dirs, files), names in backend order
listdir(t, p) ==
    LET node == NodeAt(t, p)
        depth == Len(p) - Len(Directory)
    IN  [dirs  |-> [i \in 1..Len(node.dirs) |-> DirNames[i]],
         files |-> [j \in 1..node.files |-> FileNames[depth + j]]]

\* path_strip(path, root): the path relative to root when it lies below it
path_strip(p, root) ==
    IF p = <<>> \/ root = <<>> THEN p
    ELSE IF IsPrefix(root, p) THEN SubSeq(p, Len(root) + 1, Len(p))
    ELSE p

\* os.path.join(path, name)
join(p, name) == Append(p, name)

\* Every file and directory below p in the storage tree.
RECURSIVE PathsBelow(_, _)
PathsBelow(t, p) ==
    LET ls == listdir(t, p)
    IN  UNION { {join(p, ls.dirs[i])} \cup PathsBelow(t, join(p, ls.dirs[i])) :
                i \in 1..Len(ls.dirs) }
        \cup { join(p, ls.files[j]) : j \in 1..Len(ls.files) }

\* --------------------------------------------------------- FileListing._walk
\* _walk(path, filelisting) extends filelisting in place and queries the
\* backend; the result is the extended list and the listdir queries issued.
RECURSIVE _walk(_, _, _)
RECURSIVE WalkDirs(_, _, _, _, _)

\* WalkDirs with the directory's own name appended before its subtree
\* (pre-order)
WalkDirsPreOrder(t, p, dirs, i, acc) ==
    IF i > Len(dirs) THEN acc
    ELSE LET own == [filelisting |-> Append(acc.filelisting,
                                            path_strip(join(p, dirs[i]), Directory)),
                     queries |-> acc.queries]
         IN  WalkDirs(t, p, dirs, i + 1, _walk(t, join(p, dirs[i]), own))

\* `for d in dirs: self._walk(join(path, d), filelisting); filelisting.extend([...d])`
WalkDirs(t, p, dirs, i, acc) ==
    IF i > Len(dirs) THEN acc
    ELSE LET sub == _walk(t, join(p, dirs[i]), acc)
         IN  WalkDirs(t, p, dirs, i + 1,
                      [filelisting |-> Append(sub.filelisting,
                                              path_strip(join(p, dirs[i]), Directory)),
                       queries |-> sub.queries])

_walk(t, p, acc) ==
    LET ls == listdir(t, p)
        q == [filelisting |-> acc.filelisting, queries |-> Append(acc.queries, p)]
        afterDirs == IF ls.dirs # <<>> THEN WalkDirs(t, p, ls.dirs, 1, q) ELSE q
    IN  IF ls.files # <<>>
        THEN [filelisting |-> afterDirs.filelisting \o
                              [j \in 1..Len(ls.files) |->
                                  path_strip(join(p, ls.files[j]), Directory)],
              queries |-> afterDirs.queries]
        ELSE afterDirs

\* ---------------------------------------------------- FileObject.__init__
\* FileObject(path, **kw): __init__ takes the path only, so a call that
\* passes any keyword argument raises TypeError before an object exists.
FileObject(p, kw) ==
    IF kw # {} THEN [exc |-> "TypeError", obj |-> [path |-> <<>>, head |-> <<>>, filename |-> ""]]
    ELSE [exc |-> "none",
          obj |-> [path |-> p,
                   head |-> SubSeq(p, 1, Len(p) - 1),
                   filename |-> IF p = <<>> THEN "" ELSE p[Len(p)]]]

\* `for item in ...: out.append(FileObject(<path of item>, site=self.site))`:
\* the Entries appended before the first exception, and that exception.
RECURSIVE BuildEntries(_, _, _)
BuildEntries(paths, i, out) ==
    IF i > Len(paths) THEN [exc |-> "none", out |-> out]
    ELSE LET c == FileObject(paths[i], {"site"})
         IN  IF c.exc # "none" THEN [exc |-> c.exc, out |-> out]
             ELSE BuildEntries(paths, i + 1, Append(out, c.obj))

\* ------------------------------------------------- FileListing.sort_by_attr
getattr(obj, attr) == obj[attr]

\* comparison by the attribute alone, ties going to the later element
TupleLessByAttr(a, b) == a[1] <= b[1]

\* tuple comparison of (attribute, index, object): the indices differ, so
\* the objects themselves are never compared
TupleLess(a, b) == a[1] < b[1] \/ (a[1] = b[1] /\ a[2] < b[2])

RECURSIVE InsertSorted(_, _)
InsertSorted(s, x) ==
    IF s = <<>> THEN <<x>>
    ELSE IF TupleLess(x, s[Len(s)]) THEN Append(InsertSorted(SubSeq(s, 1, Len(s) - 1), x), s[Len(s)])
    ELSE Append(s, x)

\* sorted(iterable): stable, ascending
RECURSIVE sorted(_)
sorted(s) ==
    IF s = <<>> THEN <<>>
    ELSE InsertSorted(sorted(SubSeq(s, 1, Len(s) - 1)), s[Len(s)])

sort_by_attr(seq, attr) ==
    LET zipped == [i \in 1..Len(seq) |-> <<getattr(seq[i], attr), i - 1, seq[i]>>]
        intermed == sorted(zipped)
    IN  [i \in 1..Len(intermed) |-> intermed[i][3]]

\* `if sorting_order == "desc": files.reverse()`.  files.reverse() works in
\* place: `inplace` tells whether the list reversed is the one passed in,
\* which it is when no sort made a new list before.
Ordered(srt, by, order) ==
    [files |-> IF order = "desc" THEN Reverse(srt) ELSE srt,
     inplace |-> by = "None" /\ order = "desc"]

\* `if sorting_by: files = sort_by_attr(files, sorting_by)`, then the reversal
SortAndOrder(files, by, order) ==
    Ordered(IF by # "None" THEN sort_by_attr(files, by) ELSE files, by, order)

\* ------------------------------------------------------------ FileListing
\* A FileListing is the record of its attributes.  _fileobjects_total is
\* [set |-> FALSE, ...] while it is None.  A method yields a call record:
\* the object afterwards, the exception raised ("none" when it returned),
\* the value returned (names, files or n by kind) and the storage queries
\* it issued.  A method is written as a chain of steps, each taking the
\* record of the step before.
NewListing(p, ff, by, order) ==
    [path |-> p, filter_func |-> ff, sorting_by |-> by, sorting_order |-> order,
     _is_folder_stored |-> "None",
     _fileobjects_total |-> [set |-> FALSE, items |-> <<>>],
     _results_listing_total |-> None,
     _results_walk_total |-> None,
     _results_listing_filtered |-> None,
     _results_walk_filtered |-> Missing]

Ret(obj, exc, names, files, n, listdirs, isdirs) ==
    [self |-> obj, exc |-> exc, names |-> names, files |-> files, n |-> n,
     listdirs |-> listdirs, isdirs |-> isdirs]

\* the answer of storage.isdir(path) returned without being stored
IsFolderNoStore(obj, b) == [self |-> obj, value |-> b, isdirs |-> 1]

\* `self._is_folder_stored = self.site.storage.isdir(self.path)`
IsFolderStore(obj, b) ==
    [self |-> [obj EXCEPT !._is_folder_stored = IF b THEN "True" ELSE "False"],
     value |-> b, isdirs |-> 1]

\* property is_folder: storage.isdir(path), memoized
is_folder(obj, t) ==
    IF obj._is_folder_stored = "None" THEN IsFolderStore(obj, isdir(t, obj.path))
    ELSE [self |-> obj, value |-> obj._is_folder_stored = "True", isdirs |-> 0]

\* `return (f for f in dirs + files)`
DirsThenFiles(f, ls) ==
    Ret(f.self, "none", ls.dirs \o ls.files, <<>>, None, <<f.self.path>>, f.isdirs)

\* the body of listing() after `self.is_folder` was read
ListingNames(f, t) ==
    IF f.value THEN DirsThenFiles(f, listdir(t, f.self.path))
    ELSE Ret(f.self, "none", <<>>, <<>>, None, <<>>, f.isdirs)

listing(obj, t) == ListingNames(is_folder(obj, t), t)

\* `return filelisting`
WalkResult(f, w) == Ret(f.self, "none", w.filelisting, <<>>, None, w.queries, f.isdirs)

\* the body of walk() after `self.is_folder` was read
WalkNames(f, t) ==
    IF f.value
    THEN WalkResult(f, _walk(t, f.self.path, [filelisting |-> <<>>, queries |-> <<>>]))
    ELSE Ret(f.self, "none", <<>>, <<>>, None, <<>>, f.isdirs)

walk(obj, t) == WalkNames(is_folder(obj, t), t)

\* lines 139-140: the count is stored, the sorted list returned; a reversal
\* in place has reordered the cached list too
TotalSorted(obj, so, listdirs, isdirs) ==
    Ret([obj EXCEPT !._fileobjects_total.items = IF so.inplace THEN so.files ELSE @,
                    !._results_listing_total = Len(so.files)],
        "none", <<>>, so.files, None, listdirs, isdirs)

\* lines 132-137: `files = self._fileobjects_total`, sorted and ordered
TotalFromCache(obj, listdirs, isdirs) ==
    TotalSorted(obj,
                SortAndOrder(obj._fileobjects_total.items, obj.sorting_by, obj.sorting_order),
                listdirs, isdirs)

\* TotalBuilt storing the number of names listed as the count, before the
\* Entries are built
TotalBuiltCountsNames(l, b) ==
    IF b.exc # "none"
    THEN Ret([l.self EXCEPT !._fileobjects_total = [set |-> TRUE, items |-> b.out],
                            !._results_listing_total = Len(l.names)],
             b.exc, <<>>, <<>>, None, l.listdirs, l.isdirs)
    ELSE TotalFromCache([l.self EXCEPT !._fileobjects_total = [set |-> TRUE, items |-> b.out]],
                        l.listdirs, l.isdirs)

\* lines 127-130 done: the cache holds the Entries appended so far; an
\* exception of the loop leaves the method here
TotalBuilt(l, b) ==
    IF b.exc # "none"
    THEN Ret([l.self EXCEPT !._fileobjects_total = [set |-> TRUE, items |-> b.out]],
             b.exc, <<>>, <<>>, None, l.listdirs, l.isdirs)
    ELSE TotalFromCache([l.self EXCEPT !._fileobjects_total = [set |-> TRUE, items |-> b.out]],
                        l.listdirs, l.isdirs)

\* lines 127-130: `self._fileobjects_total = []`, one FileObject per item
TotalBuild(l) ==
    TotalBuilt(l, BuildEntries([i \in 1..Len(l.names) |-> join(l.self.path, l.names[i])],
                               1, <<>>))

files_listing_total(obj, t) ==
    IF obj._fileobjects_total.set THEN TotalFromCache(obj, <<>>, 0)
    ELSE TotalBuild(listing(obj, t))

\* line 152 left out: the walk count is never stored
WalkTotalSortedNoCount(w, so) ==
    Ret(w.self, "none", <<>>, so.files, None, w.listdirs, w.isdirs)

\* lines 152-153
WalkTotalSorted(w, so) ==
    Ret([w.self EXCEPT !._results_walk_total = Len(so.files)],
        "none", <<>>, so.files, None, w.listdirs, w.isdirs)

\* lines 148-151
WalkTotalBuilt(w, b) ==
    IF b.exc # "none" THEN Ret(w.self, b.exc, <<>>, <<>>, None, w.listdirs, w.isdirs)
    ELSE WalkTotalSorted(w, SortAndOrder(b.out, w.self.sorting_by, w.self.sorting_order))

\* lines 144-147: one FileObject per walked name, nothing cached
WalkTotalBuild(w) ==
    WalkTotalBuilt(w, BuildEntries([i \in 1..Len(w.names) |-> Directory \o w.names[i]],
                                   1, <<>>))

files_walk_total(obj, t) == WalkTotalBuild(walk(obj, t))

\* filter_func(fileobject): "folders" stands for `lambda f: f.filetype == "Folder"`
ApplyFilter(ff, t, e) == IF ff = "folders" THEN isdir(t, e.path) ELSE TRUE

\* list(filter(filter_func, files))
filter(ff, t, files) == SelectSeq(files, LAMBDA e : ApplyFilter(ff, t, e))

\* `self._results_..._filtered = len(listing); return listing`
FilteredResult(c, ls, slot) ==
    Ret([c.self EXCEPT ![slot] = Len(ls)], "none", <<>>, ls, None, c.listdirs, c.isdirs)

\* the body of files_*_filtered() given the call of files_*_total()
Filtered(c, t, slot) ==
    IF c.exc # "none" THEN c
    ELSE FilteredResult(c,
                        IF c.self.filter_func # "None"
                        THEN filter(c.self.filter_func, t, c.files)
                        ELSE c.files,
                        slot)

files_listing_filtered(obj, t) ==
    Filtered(files_listing_total(obj, t), t, "_results_listing_filtered")

files_walk_filtered(obj, t) ==
    Filtered(files_walk_total(obj, t), t, "_results_walk_filtered")

\* `return len(files)` / `return self._results_...`
Count(c) == IF c.exc # "none" THEN c ELSE [c EXCEPT !.files = <<>>, !.n = Len(c.files)]

Memo(obj, n) == Ret(obj, "none", <<>>, <<>>, n, <<>>, 0)

results_listing_total(obj, t) ==
    IF obj._results_listing_total # None THEN Memo(obj, obj._results_listing_total)
    ELSE Count(files_listing_total(obj, t))

results_walk_total(obj, t) ==
    IF obj._results_walk_total # None THEN Memo(obj, obj._results_walk_total)
    ELSE Count(files_walk_total(obj, t))

results_listing_filtered(obj, t) ==
    IF obj._results_listing_filtered # None THEN Memo(obj, obj._results_listing_filtered)
    ELSE Count(files_listing_filtered(obj, t))

\* the class declares no _results_walk_filtered: reading it before
\* files_walk_filtered() has assigned it raises AttributeError
results_walk_filtered(obj, t) ==
    IF obj._results_walk_filtered = Missing
    THEN Ret(obj, "AttributeError", <<>>, <<>>, None, <<>>, 0)
    ELSE IF obj._results_walk_filtered # None THEN Memo(obj, obj._results_walk_filtered)
    ELSE Count(files_walk_filtered(obj, t))

\* --------------------------------------------- FileObject lazy attributes
\* A FileObject is the record of its path and cache slots; default_storage
\* is, for the path of that FileObject, the record b of what it answers:
\* b.kind is "none", "file" or "dir", b.size the size, b.mtime the modified
\* time as [s |-> seconds, us |-> microseconds].  An access yields the object
\* afterwards, the exception raised, the value (sval for flags and strings,
\* nval for numbers) and the number of default_storage queries it issued.
NewFileObject(p) ==
    FileObject(p, {}).obj @@
    [_filetype_stored |-> "None", _filesize_stored |-> None, _date_stored |-> None,
     _exists_stored |-> "None", _is_folder_stored |-> "None"]

Flag(b) == IF b THEN "True" ELSE "False"

Got(fo, exc, sval, nval, queries) ==
    [self |-> fo, exc |-> exc, sval |-> sval, nval |-> nval, queries |-> queries]

\* get_file_type(filename): the category of the extension, '' when unknown
get_file_type(filename) == IF filename = "a.txt" THEN "Document" ELSE ""

\* time.mktime(dt.timetuple()): whole seconds, the microseconds are dropped
mktime_timetuple(dt) == dt.s

exists(fo, b) ==
    IF fo._exists_stored = "None"
    THEN Got([fo EXCEPT !._exists_stored = Flag(b.kind # "none")], "none",
             Flag(b.kind # "none"), None, 1)
    ELSE Got(fo, "none", fo._exists_stored, None, 0)

_is_folder(fo, b) ==
    IF fo._is_folder_stored = "None"
    THEN Got([fo EXCEPT !._is_folder_stored = Flag(b.kind = "dir")], "none",
             Flag(b.kind = "dir"), None, 1)
    ELSE Got(fo, "none", fo._is_folder_stored, None, 0)

_filetype(fo, b) ==
    IF fo._filetype_stored # "None" THEN Got(fo, "none", fo._filetype_stored, None, 0)
    ELSE LET f == _is_folder(fo, b)
             ft == IF f.sval = "True" THEN "Folder" ELSE get_file_type(fo.filename)
         IN  Got([f.self EXCEPT !._filetype_stored = ft], "none", ft, None, f.queries)

\* `if self._filesize_stored: return it` in place of `!= None`
_filesize_truthy(fo, b) ==
    IF fo._filesize_stored # None /\ fo._filesize_stored # 0
    THEN Got(fo, "none", "", fo._filesize_stored, 0)
    ELSE LET e == exists(fo, b)
         IN  IF e.sval = "True"
             THEN IF b.kind = "none" THEN Got(e.self, "OSError", "", None, e.queries + 1)
                  ELSE Got([e.self EXCEPT !._filesize_stored = b.size], "none", "",
                           b.size, e.queries + 1)
             ELSE Got(e.self, "none", "", None, e.queries)

\* default_storage.size(path) raises when nothing is at the path
_filesize(fo, b) ==
    IF fo._filesize_stored # None THEN Got(fo, "none", "", fo._filesize_stored, 0)
    ELSE LET e == exists(fo, b)
         IN  IF e.sval = "True"
             THEN IF b.kind = "none" THEN Got(e.self, "OSError", "", None, e.queries + 1)
                  ELSE Got([e.self EXCEPT !._filesize_stored = b.size], "none", "",
                           b.size, e.queries + 1)
             ELSE Got(e.self, "none", "", None, e.queries)

\* default_storage.modified_time(path) raises when nothing is at the path
_date(fo, b) ==
    IF fo._date_stored # None THEN Got(fo, "none", "", fo._date_stored, 0)
    ELSE LET e == exists(fo, b)
         IN  IF e.sval = "True"
             THEN IF b.kind = "none" THEN Got(e.self, "OSError", "", None, e.queries + 1)
                  ELSE Got([e.self EXCEPT !._date_stored = mktime_timetuple(b.mtime)],
                           "none", "", mktime_timetuple(b.mtime), e.queries + 1)
             ELSE Got(e.self, "none", "", None, e.queries)

\* datetime.datetime.fromtimestamp(ts): the calendar value of the timestamp,
\* named by the tag "datetime" and its seconds since the epoch
fromtimestamp(ts) == [sval |-> "datetime", nval |-> ts]

\* `if self.date:` is false for None and for the timestamp 0
DatetimeOf(d) ==
    IF d.exc # "none" THEN d
    ELSE IF d.nval # None /\ d.nval # 0
         THEN Got(d.self, "none", fromtimestamp(d.nval).sval, fromtimestamp(d.nval).nval,
                  d.queries)
         ELSE Got(d.self, "none", "None", None, d.queries)

_datetime(fo, b) == DatetimeOf(_date(fo, b))

\* the folder branch taken on what is at the path now, not on is_folder
DeleteCallOnStorage(f, b) ==
    [self |-> f.self, queries |-> f.queries,
     call |-> IF b.kind = "dir" THEN "rmtree" ELSE "delete",
     calls |-> <<[fn |-> IF b.kind = "dir" THEN "rmtree" ELSE "delete", path |-> f.self.path]>>]

\* rmtree(path) when the is_folder value f is true, delete(path) otherwise
DeleteCall(f, b) ==
    [self |-> f.self, queries |-> f.queries,
     call |-> IF f.sval = "True" THEN "rmtree" ELSE "delete",
     calls |-> <<[fn |-> IF f.sval = "True" THEN "rmtree" ELSE "delete", path |-> f.self.path]>>]

delete(fo, b) == DeleteCall(_is_folder(fo, b), b)

\* default_storage.listdir(fo.path): the answer, or OSError when no directory
\* is at the path
StorageListdir(b, a) ==
    IF b.kind # "dir" THEN [exc |-> "OSError", dirs |-> 0, files |-> 0]
    ELSE [exc |-> a.exc, dirs |-> a.dirs, files |-> a.files]

\* `except Exception:` in place of `except UnicodeDecodeError:`
ListdirOutcomeAny(l) ==
    IF l.exc # "none" THEN [l EXCEPT !.exc = "FileSystemEncodingChanged"] ELSE l

\* try: listdir(path) except UnicodeDecodeError: raise FileSystemEncodingChanged()
ListdirOutcome(l) ==
    IF l.exc = "UnicodeDecodeError" THEN [l EXCEPT !.exc = "FileSystemEncodingChanged"] ELSE l

\* `if not files:` in place of `if not dirs and not files:`
IsEmptyOfFilesOnly(f, l) ==
    IF f.sval # "True" THEN Got(f.self, "none", "False", 0, f.queries)
    ELSE IF l.exc # "none" THEN Got(f.self, l.exc, "", 1, f.queries)
    ELSE Got(f.self, "none", Flag(l.files = 0), 1, f.queries)

\* the result of is_empty from the is_folder value f and the listing l;
\* nval counts the listdir queries
IsEmptyOf(f, l) ==
    IF f.sval # "True" THEN Got(f.self, "none", "False", 0, f.queries)
    ELSE IF l.exc # "none" THEN Got(f.self, l.exc, "", 1, f.queries)
    ELSE Got(f.self, "none", Flag(l.dirs = 0 /\ l.files = 0), 1, f.queries)

_is_empty(fo, b, a) == IsEmptyOf(_is_folder(fo, b), ListdirOutcome(StorageListdir(b, a)))

\* the URL put together from the path, with no storage query
_url_unqueried(fo, a) == Got(fo, "none", Urls[1], None, 0)

\* return default_storage.url(self.path)
_url(fo, a) == Got(fo, "none", a.url, None, 1)

\* default_storage.delete(path) on a version path: what is there afterwards,
\* and whether the call raised (nothing to delete is no error, a file that
\* cannot be removed is)
StorageDelete(store, p) ==
    [store |-> IF store[p] = "file" THEN [store EXCEPT ![p] = "none"] ELSE store,
     raised |-> store[p] = "locked"]

RECURSIVE DeleteEach(_, _, _, _)
\* the loop without its try/except: the first delete that raises ends it
DeleteEachNoTry(vs, i, store, log) ==
    IF i > Len(vs) THEN [exc |-> "none", store |-> store, calls |-> log]
    ELSE LET d == StorageDelete(store, vs[i])
             c == [fn |-> "delete", path |-> vs[i], was |-> store[vs[i]], raised |-> d.raised]
         IN  IF d.raised THEN [exc |-> "OSError", store |-> d.store, calls |-> Append(log, c)]
             ELSE DeleteEach(vs, i + 1, d.store, Append(log, c))

\* for version in ...: try: default_storage.delete(version) except: pass
DeleteEach(vs, i, store, log) ==
    IF i > Len(vs) THEN [exc |-> "none", store |-> store, calls |-> log]
    ELSE LET d == StorageDelete(store, vs[i])
         IN  DeleteEach(vs, i + 1, d.store,
                        Append(log, [fn |-> "delete", path |-> vs[i], was |-> store[vs[i]],
                                     raised |-> d.raised]))

delete_versions(fo, vs, store) == DeleteEach(vs.versions, 1, store, <<>>)
delete_admin_versions(fo, vs, store) == DeleteEach(vs.admin_versions, 1, store, <<>>)

\* ------------------------------------------- walk() over symbolic links
\* A symbolic link l = [set, at, name, to] is an entry `name` of the directory
\* at path `at` that leads to the directory at path `to`.
LinkName == "loop"

\* the directory the first i components of p lead to, links followed
RECURSIVE Resolve(_, _, _)
Resolve(l, p, i) ==
    IF i <= Len(Directory) THEN SubSeq(p, 1, i)
    ELSE IF l.set /\ Resolve(l, p, i - 1) = l.at /\ p[i] = l.name THEN l.to
    ELSE Append(Resolve(l, p, i - 1), p[i])

\* storage.listdir(path): a link to a directory is listed among the dirs
LinkListdir(t, l, p) ==
    [dirs |-> listdir(t, Resolve(l, p, Len(p))).dirs \o
              (IF l.set /\ Resolve(l, p, Len(p)) = l.at THEN <<l.name>> ELSE <<>>),
     files |-> listdir(t, Resolve(l, p, Len(p))).files]

\* a frame of _walk(path, filelisting) after line 103: i counts the
\* subdirectories the loop of lines 106-108 is through with
Frame(p, ls) == [path |-> p, dirs |-> ls.dirs, files |-> ls.files, i |-> 0]

\* lines 116-118: walk() up to the call of _walk(self.path, filelisting)
WalkEnter(f, t, l) ==
    IF f.value
    THEN [self |-> f.self, pc |-> "_walk", filelisting |-> <<>>,
          stack |-> <<Frame(f.self.path, LinkListdir(t, l, f.self.path))>>]
    ELSE [self |-> f.self, pc |-> "done", filelisting |-> <<>>, stack |-> <<>>]

\* a recursive call that is skipped when its directory is one a frame of the
\* stack is already walking
WalkRecurseOnce(st, t, l, top) ==
    IF \E k \in 1..Len(st) :
           Resolve(l, st[k].path, Len(st[k].path))
               = Resolve(l, join(top.path, top.dirs[top.i + 1]), Len(top.path) + 1)
    THEN [pc |-> "_walk", stack |-> [st EXCEPT ![Len(st)].i = @ + 1]]
    ELSE [pc |-> "_walk",
          stack |-> Append(st, Frame(join(top.path, top.dirs[top.i + 1]),
                                     LinkListdir(t, l, join(top.path, top.dirs[top.i + 1]))))]

\* line 107: self._walk(os.path.join(path, d), filelisting), one frame more
\* unless the interpreter's recursion limit is reached
WalkRecurse(st, t, l, top) ==
    IF Len(st) >= RecursionLimit THEN [pc |-> "RecursionError", stack |-> <<>>]
    ELSE [pc |-> "_walk",
          stack |-> Append(st, Frame(join(top.path, top.dirs[top.i + 1]),
                                     LinkListdir(t, l, join(top.path, top.dirs[top.i + 1]))))]

\* lines 110-112: the files of the frame's directory, appended in order
WithFiles(fl, top) ==
    fl \o [j \in 1..Len(top.files) |-> path_strip(join(top.path, top.files[j]), Directory)]

\* the frame returns: line 108 of the caller appends the subdirectory and
\* goes on with the next; the outermost frame returns to walk(), line 119
WalkReturn(st, fl, top) ==
    IF Len(st) = 1 THEN [pc |-> "done", stack |-> <<>>, filelisting |-> WithFiles(fl, top)]
    ELSE [pc |-> "_walk",
          stack |-> [SubSeq(st, 1, Len(st) - 1) EXCEPT ![Len(st) - 1].i = @ + 1],
          filelisting |-> Append(WithFiles(fl, top),
                                 path_strip(join(st[Len(st) - 1].path,
                                                 st[Len(st) - 1].dirs[st[Len(st) - 1].i + 1]),
                                            Directory))]

\* ------------------------------------------------------------------ state
VARIABLES
    tree,             \* site.storage: the directory tree below Directory
    self,             \* the FileListing
    last,             \* the latest call on the FileListing, with the object before it
    prev,             \* the call before that
    seq,              \* the list of Entries handed to the sort
    out,              \* the latest sort: its arguments and the list returned
    fo,               \* the FileObject whose attributes are read
    default_storage,  \* what default_storage answers for fo.path
    acc,              \* the latest access to fo
    first,            \* per attribute of fo, the first value an access returned
    calls,            \* the backend calls (delete, rmtree, listdir, url) of the latest
                      \* operation on fo that issues any, in order
    answers,          \* what default_storage answers to url(fo.path) and listdir(fo.path)
    firsturl,         \* the first value an access to fo.url returned
    versions,         \* the lists fo.versions() and fo.admin_versions() hand out
    vstore,           \* what default_storage holds at each version path
    link,             \* a symbolic link in site.storage, or none
    pc,               \* where the running walk() is
    stack,            \* the frames of _walk(), innermost last
    filelisting       \* the list the running walk() fills

listingVars == <<tree, self, last, prev>>
sortVars == <<seq, out>>
entryVars == <<fo, default_storage, acc, first>>
fileVars == <<answers, firsturl>>
versionVars == <<versions, vstore>>
walkVars == <<link, pc, stack, filelisting>>
vars == <<listingVars, sortVars, entryVars, calls, fileVars, versionVars, walkVars>>

NoCall == [op |-> "new", exc |-> "none", names |-> <<>>, files |-> <<>>, n |-> None,
           listdirs |-> <<>>, isdirs |-> 0]

FilterFuncs == {"None", "folders"}
SortKeys == {"None", "filename"}
SortOrders == {"None", "asc", "desc"}

\* a directory, a subdirectory or nothing, and a file or nothing
ListingPaths == {Directory, join(Directory, DirNames[1]), join(Directory, FileNames[1])}

InitListing(trees, paths) ==
    /\ tree \in trees
    /\ \E p \in paths, ff \in FilterFuncs, by \in SortKeys, order \in {"None", "desc"} :
           self = NewListing(p, ff, by, order)
    /\ last = [op |-> "new", pre |-> self, exc |-> "none", names |-> <<>>, files |-> <<>>,
               n |-> None, listdirs |-> <<>>, isdirs |-> 0]
    /\ prev = NoCall

\* Entries as the sort sees them: the object (id) and its attribute values
SortAttrs == {"filesize", "date"}
SortEntries(n) == [1..n -> [filesize : 0..MaxVal, date : 0..MaxVal]]
NoSort == [op |-> "new", input |-> <<>>, attr |-> "None", order |-> "None", files |-> <<>>]

InitSort(lens) ==
    /\ \E n \in lens : \E vals \in SortEntries(n) :
           seq = [i \in 1..n |-> [id |-> i, filesize |-> vals[i].filesize, date |-> vals[i].date]]
    /\ out = NoSort

\* default_storage's answers for one path
StorageStates ==
    [kind : {"none", "file", "dir"}, size : 0..MaxSize,
     mtime : [s : 0..MaxSize, us : {0, 500000}]]
NoAccess == [op |-> "new", field |-> "none", had |-> FALSE, exc |-> "none",
             sval |-> "", nval |-> None, queries |-> 0]
Fields == {"exists", "is_folder", "filetype", "filesize", "date"}
EntryPaths == {join(Directory, FileNames[1]), join(Directory, DirNames[1])}

InitEntry(paths, states) ==
    /\ \E p \in paths : fo = NewFileObject(p)
    /\ default_storage \in states
    /\ acc = NoAccess
    /\ first = [f \in Fields |-> [set |-> FALSE, sval |-> "", nval |-> None]]
    /\ calls = <<>>

IdleListing ==
    /\ tree = [dirs |-> <<>>, files |-> 0]
    /\ self = NewListing(Directory, "None", "None", "None")
    /\ last = [op |-> "new", pre |-> self, exc |-> "none", names |-> <<>>, files |-> <<>>,
               n |-> None, listdirs |-> <<>>, isdirs |-> 0]
    /\ prev = NoCall
IdleSort == InitSort({0})
IdleEntry ==
    InitEntry({join(Directory, FileNames[1])},
              {[kind |-> "none", size |-> 0, mtime |-> [s |-> 0, us |-> 0]]})

\* default_storage's further answers for fo.path: url() and listdir()
NoUrl == [set |-> FALSE, sval |-> ""]

InitFile(urls, excs, counts) ==
    /\ answers \in [url : urls, exc : excs, dirs : counts, files : counts]
    /\ firsturl = NoUrl

IdleFile == InitFile({Urls[1]}, {"none"}, {0})

\* the version paths an Entry has, and what the storage holds there
VersionPaths == <<<<"root", "_versions", "a_thumb.txt">>, <<"root", "_versions", "a_big.txt">>>>

VersionStates == {"file", "none", "locked"}
VersionStores == [Range(VersionPaths) -> VersionStates]

RECURSIVE SeqsUpTo(_, _)
SeqsUpTo(S, n) ==
    IF n = 0 THEN {<<>>}
    ELSE SeqsUpTo(S, n - 1) \cup {Append(q, x) : q \in SeqsUpTo(S, n - 1), x \in S}

\* what versions() and admin_versions() may hand out: lists of version paths
VersionLists(n) == SeqsUpTo(Range(VersionPaths), n)

InitVersions(lists, stores) ==
    /\ versions \in [versions : lists, admin_versions : lists]
    /\ vstore \in stores

IdleVersions ==
    InitVersions({<<>>}, {[p \in Range(VersionPaths) |-> "none"]})

NoLink == [set |-> FALSE, at |-> <<>>, name |-> "", to |-> <<>>]

InitWalker(links) ==
    /\ link \in links
    /\ pc = "idle"
    /\ stack = <<>>
    /\ filelisting = <<>>

IdleWalker == InitWalker({NoLink})

\* ------------------------------------------------------ FileListing calls
Call(op, c) ==
    /\ self' = c.self
    /\ last' = [op |-> op, pre |-> self, exc |-> c.exc, names |-> c.names, files |-> c.files,
                n |-> c.n, listdirs |-> c.listdirs, isdirs |-> c.isdirs]
    /\ prev' = [op |-> last.op, exc |-> last.exc, names |-> last.names, files |-> last.files,
                n |-> last.n, listdirs |-> last.listdirs, isdirs |-> last.isdirs]
    /\ UNCHANGED <<tree, sortVars, entryVars, calls, fileVars, versionVars, walkVars>>

Listing == Call("listing", listing(self, tree))
Walk == Call("walk", walk(self, tree))
FilesListingTotal == Call("files_listing_total", files_listing_total(self, tree))
FilesWalkTotal == Call("files_walk_total", files_walk_total(self, tree))
FilesListingFiltered == Call("files_listing_filtered", files_listing_filtered(self, tree))
FilesWalkFiltered == Call("files_walk_filtered", files_walk_filtered(self, tree))
ResultsListingTotal == Call("results_listing_total", results_listing_total(self, tree))
ResultsWalkTotal == Call("results_walk_total", results_walk_total(self, tree))
ResultsListingFiltered == Call("results_listing_filtered", results_listing_filtered(self, tree))
ResultsWalkFiltered == Call("results_walk_filtered", results_walk_filtered(self, tree))

\* assignments to the public attributes of the FileListing
SetAttr(op, obj) == Call(op, Ret(obj, "none", <<>>, <<>>, None, <<>>, 0))

SetFilterFunc ==
    \E ff \in FilterFuncs :
        /\ ff # self.filter_func
        /\ SetAttr("set_filter_func", [self EXCEPT !.filter_func = ff])

SetSortingBy ==
    \E by \in SortKeys :
        /\ by # self.sorting_by
        /\ SetAttr("set_sorting_by", [self EXCEPT !.sorting_by = by])

SetSortingOrder ==
    \E order \in SortOrders :
        /\ order # self.sorting_order
        /\ SetAttr("set_sorting_order", [self EXCEPT !.sorting_order = order])

Init ==
    /\ InitListing(TreesUpTo(ListingSubdirs), ListingPaths)
    /\ IdleSort
    /\ IdleEntry
    /\ IdleFile
    /\ IdleVersions
    /\ IdleWalker

Next ==
    \/ Listing
    \/ Walk
    \/ FilesListingTotal
    \/ FilesWalkTotal
    \/ FilesListingFiltered
    \/ FilesWalkFiltered
    \/ ResultsListingTotal
    \/ ResultsWalkTotal
    \/ ResultsListingFiltered
    \/ ResultsWalkFiltered
    \/ SetFilterFunc
    \/ SetSortingBy
    \/ SetSortingOrder

Spec == Init /\ [][Next]_vars

\* walk() and listing() over every storage tree of the bounds
WalkPaths == ListingPaths \cup {join(join(Directory, DirNames[1]), DirNames[1])}

InitWalk ==
    /\ InitListing(TreesUpTo(MaxSubdirs), WalkPaths)
    /\ IdleSort
    /\ IdleEntry
    /\ IdleFile
    /\ IdleVersions
    /\ IdleWalker

NextWalk ==
    \/ Listing
    \/ Walk

SpecWalk == InitWalk /\ [][NextWalk]_vars

\* ------------------------------------------------------------- sort calls
\* sort_by_attr(seq, attr) on a list of Entries
SortByAttr ==
    \E a \in SortAttrs :
        /\ out' = [op |-> "sort_by_attr", input |-> seq, attr |-> a, order |-> "None",
                   files |-> sort_by_attr(seq, a)]
        /\ UNCHANGED <<seq, listingVars, entryVars, calls, fileVars, versionVars, walkVars>>

\* the sorting step of files_listing_total / files_walk_total on a list
SortListing ==
    \E a \in SortAttrs \cup {"None"}, o \in SortOrders :
        LET so == SortAndOrder(seq, a, o)
        IN  /\ out' = [op |-> "sort_listing", input |-> seq, attr |-> a, order |-> o,
                       files |-> so.files]
            /\ seq' = IF so.inplace THEN so.files ELSE seq
            /\ UNCHANGED <<listingVars, entryVars, calls, fileVars, versionVars, walkVars>>

InitSorting ==
    /\ IdleListing
    /\ InitSort(0..MaxLen)
    /\ IdleEntry
    /\ IdleFile
    /\ IdleVersions
    /\ IdleWalker

NextSort ==
    \/ SortByAttr
    \/ SortListing

SpecSort == InitSorting /\ [][NextSort]_vars

\* ------------------------------------------------------- FileObject calls
Value(g) == [set |-> TRUE, sval |-> g.sval, nval |-> g.nval]

\* reading one attribute of fo
Access(field, g) ==
    /\ fo' = g.self
    /\ acc' = [op |-> "get", field |-> field, had |-> first[field].set, exc |-> g.exc,
               sval |-> g.sval, nval |-> g.nval, queries |-> g.queries]
    /\ first' = IF g.exc = "none" /\ ~first[field].set
                THEN [first EXCEPT ![field] = Value(g)]
                ELSE first
    /\ UNCHANGED <<default_storage, listingVars, sortVars, calls, fileVars, versionVars, walkVars>>

Exists == Access("exists", exists(fo, default_storage))
IsFolder == Access("is_folder", _is_folder(fo, default_storage))
Filetype == Access("filetype", _filetype(fo, default_storage))
Filesize == Access("filesize", _filesize(fo, default_storage))
Date == Access("date", _date(fo, default_storage))

\* reading fo.datetime: nothing of its own is stored, the date is
Datetime ==
    LET g == _datetime(fo, default_storage)
    IN  /\ fo' = g.self
        /\ acc' = [op |-> "get", field |-> "datetime", had |-> FALSE, exc |-> g.exc,
                   sval |-> g.sval, nval |-> g.nval, queries |-> g.queries]
        /\ UNCHANGED <<default_storage, first, listingVars, sortVars, calls, fileVars,
                       versionVars, walkVars>>

\* fo.delete(): what is at the path is gone afterwards
Delete ==
    LET d == delete(fo, default_storage)
    IN  /\ fo' = d.self
        /\ default_storage' = [default_storage EXCEPT !.kind = "none"]
        /\ acc' = [NoAccess EXCEPT !.op = d.call, !.sval = default_storage.kind,
                                   !.queries = d.queries]
        /\ calls' = d.calls
        /\ UNCHANGED <<first, listingVars, sortVars, fileVars, versionVars, walkVars>>

\* anything else changes what is stored at the path: its kind, its size or
\* its modification time, one at a time
StorageChange ==
    \E b \in StorageStates :
        /\ Cardinality({f \in {"kind", "size", "mtime"} : b[f] # default_storage[f]}) = 1
        /\ default_storage' = b
        /\ acc' = [NoAccess EXCEPT !.op = "storage"]
        /\ UNCHANGED <<fo, first, listingVars, sortVars, calls, fileVars, versionVars, walkVars>>

InitFileObject ==
    /\ IdleListing
    /\ IdleSort
    /\ InitEntry(EntryPaths, StorageStates)
    /\ IdleFile
    /\ IdleVersions
    /\ IdleWalker

NextEntry ==
    \/ Exists
    \/ IsFolder
    \/ Filetype
    \/ Filesize
    \/ Date
    \/ Datetime
    \/ Delete
    \/ StorageChange

SpecEntry == InitFileObject /\ [][NextEntry]_vars

\* ------------------------------------------- FileObject url and is_empty
ListdirExcs == {"none", "UnicodeDecodeError", "UnicodeEncodeError", "OSError"}

\* reading an attribute of fo that has no stored slot
Read(field, g, had, log) ==
    /\ fo' = g.self
    /\ acc' = [op |-> "get", field |-> field, had |-> had, exc |-> g.exc,
               sval |-> g.sval, nval |-> g.nval, queries |-> g.queries]
    /\ calls' = log
    /\ UNCHANGED <<default_storage, first, answers, listingVars, sortVars, versionVars,
                   walkVars>>

IsEmpty ==
    LET g == _is_empty(fo, default_storage, answers)
    IN  /\ Read("is_empty", g, FALSE,
                IF g.nval = 1 THEN <<[fn |-> "listdir", path |-> fo.path]>> ELSE <<>>)
        /\ UNCHANGED firsturl

Url ==
    LET g == _url(fo, answers)
    IN  /\ Read("url", g, firsturl.set, <<[fn |-> "url", path |-> fo.path]>>)
        /\ firsturl' = IF firsturl.set THEN firsturl ELSE [set |-> TRUE, sval |-> g.sval]

\* what is at the path changes kind
KindChange ==
    \E k \in {"none", "file", "dir"} :
        /\ k # default_storage.kind
        /\ default_storage' = [default_storage EXCEPT !.kind = k]
        /\ acc' = [NoAccess EXCEPT !.op = "storage"]
        /\ UNCHANGED <<fo, first, calls, listingVars, sortVars, fileVars, versionVars,
                       walkVars>>

\* the directory's contents, its readability and the URL configuration change
AnswersChange ==
    \E a \in [url : Range(Urls), exc : ListdirExcs, dirs : 0..MaxFiles, files : 0..MaxFiles] :
        /\ a # answers
        /\ answers' = a
        /\ acc' = [NoAccess EXCEPT !.op = "storage"]
        /\ UNCHANGED <<fo, default_storage, first, calls, firsturl, listingVars, sortVars,
                       versionVars, walkVars>>

InitFileReads ==
    /\ IdleListing
    /\ IdleSort
    /\ InitEntry(EntryPaths, {b \in StorageStates : b.size = 0 /\ b.mtime = [s |-> 0, us |-> 0]})
    /\ InitFile(Range(Urls), ListdirExcs, 0..MaxFiles)
    /\ IdleVersions
    /\ IdleWalker

NextFile ==
    \/ IsFolder
    \/ IsEmpty
    \/ Url
    \/ KindChange
    \/ AnswersChange

SpecFile == InitFileReads /\ [][NextFile]_vars

\* --------------------------------------------------- walk() step by step
\* the directories of the storage tree
TreeDirs(t) == {Directory} \cup {q \in PathsBelow(t, Directory) : isdir(t, q)}

\* no link, or one link from a directory to a directory
LinksOf(t) ==
    {NoLink} \cup {[set |-> TRUE, at |-> a, name |-> LinkName, to |-> b] :
                      a \in TreeDirs(t), b \in TreeDirs(t)}

\* walk() is called
WalkStart ==
    /\ pc = "idle"
    /\ LET w == WalkEnter(is_folder(self, tree), tree, link)
       IN  /\ self' = w.self
           /\ pc' = w.pc
           /\ stack' = w.stack
           /\ filelisting' = w.filelisting
    /\ UNCHANGED <<tree, last, prev, link, sortVars, entryVars, calls, fileVars, versionVars>>

\* the innermost frame calls _walk() on its next subdirectory
WalkDown ==
    /\ pc = "_walk"
    /\ stack[Len(stack)].i < Len(stack[Len(stack)].dirs)
    /\ LET w == WalkRecurse(stack, tree, link, stack[Len(stack)])
       IN  /\ pc' = w.pc
           /\ stack' = w.stack
           /\ filelisting' = IF w.pc = "RecursionError" THEN <<>> ELSE filelisting
    /\ UNCHANGED <<listingVars, link, sortVars, entryVars, calls, fileVars, versionVars>>

\* the innermost frame is through with its subdirectories, adds its files
\* and returns
WalkUp ==
    /\ pc = "_walk"
    /\ stack[Len(stack)].i = Len(stack[Len(stack)].dirs)
    /\ LET w == WalkReturn(stack, filelisting, stack[Len(stack)])
       IN  /\ pc' = w.pc
           /\ stack' = w.stack
           /\ filelisting' = w.filelisting
    /\ UNCHANGED <<listingVars, link, sortVars, entryVars, calls, fileVars, versionVars>>

\* one file in every directory
RECURSIVE EveryDirHolds(_, _)
EveryDirHolds(node, n) ==
    /\ node.files = n
    /\ \A i \in 1..Len(node.dirs) : EveryDirHolds(node.dirs[i], n)

InitRecursion ==
    /\ tree \in {t \in TreesUpTo(WalkerSubdirs) : EveryDirHolds(t, 1)}
    /\ \E p \in ListingPaths : self = NewListing(p, "None", "None", "None")
    /\ last = [op |-> "new", pre |-> self, exc |-> "none", names |-> <<>>, files |-> <<>>,
               n |-> None, listdirs |-> <<>>, isdirs |-> 0]
    /\ prev = NoCall
    /\ IdleSort
    /\ IdleEntry
    /\ IdleFile
    /\ IdleVersions
    /\ InitWalker(LinksOf(tree))

NextRecursion ==
    \/ WalkStart
    \/ WalkDown
    \/ WalkUp

\* a call that has started keeps running: the interpreter takes the next step
SpecRecursion == InitRecursion /\ [][NextRecursion]_vars /\ WF_vars(NextRecursion)

\* --------------------------------------------------------- version calls
VersionCall(op, d) ==
    /\ vstore' = d.store
    /\ calls' = d.calls
    /\ acc' = [NoAccess EXCEPT !.op = op, !.exc = d.exc]
    /\ UNCHANGED <<fo, default_storage, first, versions, listingVars, sortVars, fileVars,
                   walkVars>>

DeleteVersions == VersionCall("delete_versions", delete_versions(fo, versions, vstore))
DeleteAdminVersions ==
    VersionCall("delete_admin_versions", delete_admin_versions(fo, versions, vstore))

\* version files come and go, and become removable or not, outside the Entry
VersionStoreChange ==
    \E p \in Range(VersionPaths), k \in VersionStates :
        /\ k # vstore[p]
        /\ vstore' = [vstore EXCEPT ![p] = k]
        /\ acc' = [NoAccess EXCEPT !.op = "storage"]
        /\ UNCHANGED <<fo, default_storage, first, calls, versions, listingVars, sortVars,
                       fileVars, walkVars>>

InitVersionCalls ==
    /\ IdleListing
    /\ IdleSort
    /\ InitEntry(EntryPaths, {[kind |-> "file", size |-> 0, mtime |-> [s |-> 0, us |-> 0]]})
    /\ IdleFile
    /\ InitVersions(VersionLists(MaxVersions), VersionStores)
    /\ IdleWalker

NextVersions ==
    \/ DeleteVersions
    \/ DeleteAdminVersions
    \/ VersionStoreChange

SpecVersions == InitVersionCalls /\ [][NextVersions]_vars

\* ----------------------------------------------------------------- claims
TotalOps == {"files_listing_total", "files_walk_total"}
FilteredOps == {"files_listing_filtered", "files_walk_filtered"}
CounterOps == {"results_listing_total", "results_walk_total",
               "results_listing_filtered", "results_walk_filtered"}
MethodOps == {"listing", "walk"} \cup TotalOps \cup FilteredOps \cup CounterOps

\* The Entries a folder listing stands for: one per name, dirs then files.
EntriesOf(t, p) ==
    IF isdir(t, p)
    THEN LET ls == listdir(t, p)
             names == ls.dirs \o ls.files
         IN  [i \in 1..Len(names) |-> FileObject(join(p, names[i]), {}).obj]
    ELSE <<>>

\* C1: files_listing_total() on a folder path, with no sorting key and no
\* descending order, returns normally with one Entry per name of the backend
\* listing, paths join(path, name), directories first and then files.
C1_ListingTotalReturnsEntries ==
    (/\ last.op = "files_listing_total"
     /\ isdir(tree, last.pre.path)
     /\ last.pre.sorting_by = "None"
     /\ last.pre.sorting_order # "desc")
    => (last.exc = "none" /\ last.files = EntriesOf(tree, last.pre.path))

FilesOf(op, obj, t) ==
    CASE op = "results_listing_total" -> files_listing_total(obj, t)
      [] op = "results_walk_total" -> files_walk_total(obj, t)
      [] op = "results_listing_filtered" -> files_listing_filtered(obj, t)
      [] op = "results_walk_filtered" -> files_walk_filtered(obj, t)

CacheOf(op, obj) ==
    CASE op = "results_listing_total" -> obj._results_listing_total
      [] op = "results_walk_total" -> obj._results_walk_total
      [] op = "results_listing_filtered" -> obj._results_listing_filtered
      [] op = "results_walk_filtered" -> obj._results_walk_filtered

Fresh(obj) == obj = NewListing(obj.path, obj.filter_func, obj.sorting_by, obj.sorting_order)

\* C3: on a freshly constructed Listing each of the four counters returns
\* normally the length of the collection of its files_* method and leaves
\* its count cache set.
C3_FreshCountersReturn ==
    (last.op \in CounterOps /\ Fresh(last.pre))
    => /\ last.exc = "none"
       /\ last.n = Len(FilesOf(last.op, last.pre, tree).files)
       /\ CacheOf(last.op, self) = last.n

\* C4: two calls of files_listing_total() with sorting unchanged in between
\* return collections of equal length with the same Entry objects, and the
\* later call does not query the backend listing.
C4_TwoCallsSameEntries ==
    (prev.op = "files_listing_total" /\ last.op = "files_listing_total")
    => /\ prev.exc = "none"
       /\ last.exc = "none"
       /\ Len(prev.files) = Len(last.files)
       /\ Range(prev.files) = Range(last.files)
       /\ last.listdirs = <<>>

\* C5: the cached base collection stays in the unsorted backend listing order
\* whatever sorting key and order are in force, and repeated calls with
\* unchanged parameters return the same sequence.
C5_CacheKeepsListingOrder ==
    /\ self._fileobjects_total.set
           => self._fileobjects_total.items = EntriesOf(tree, self.path)
    /\ (prev.op = "files_listing_total" /\ last.op = "files_listing_total")
           => (prev.exc = last.exc /\ prev.files = last.files)

\* C8: on a path that is not a directory listing() and walk() return an empty
\* sequence without a listdir query, and files_listing_total(),
\* files_walk_total() and all four counters yield empty / 0.
C8_NonFolderIsEmpty ==
    (~isdir(tree, self.path) /\ last.op \in MethodOps)
    => /\ last.exc = "none"
       /\ last.names = <<>>
       /\ last.files = <<>>
       /\ last.listdirs = <<>>
       /\ last.op \in CounterOps => last.n = 0

\* C9: files_listing_filtered() and files_walk_filtered() return the Entries
\* of the corresponding total collection that satisfy the filter predicate,
\* in the order of the total collection, and the whole total collection when
\* no predicate is set.
C9_FilteredIsSubsequence ==
    last.op \in FilteredOps
    => LET walked == walk(last.pre, tree).names
           all == IF last.op = "files_listing_filtered"
                  THEN SortAndOrder(EntriesOf(tree, last.pre.path),
                                    last.pre.sorting_by, last.pre.sorting_order).files
                  ELSE SortAndOrder([i \in 1..Len(walked) |->
                                        FileObject(Directory \o walked[i], {}).obj],
                                    last.pre.sorting_by, last.pre.sorting_order).files
       IN  /\ last.exc = "none"
           /\ last.files = IF last.pre.filter_func = "None" THEN all
                           ELSE SelectSeq(all, LAMBDA e : ApplyFilter(last.pre.filter_func, tree, e))

\* position of the storage path q in a walk result
Pos(names, q) == CHOOSE i \in 1..Len(names) : Directory \o names[i] = q

PostOrder(t, p, names) ==
    LET below == PathsBelow(t, p)
        dirsIn == {p} \cup {q \in below : isdir(t, q)}
    IN  \* every descendant exactly once
        /\ Len(names) = Cardinality(below)
        /\ {Directory \o names[i] : i \in 1..Len(names)} = below
        \* a subdirectory comes immediately after the names of its subtree
        /\ \A d \in dirsIn \ {p} :
               {Pos(names, q) : q \in PathsBelow(t, d)} =
                   (Pos(names, d) - Cardinality(PathsBelow(t, d)))..(Pos(names, d) - 1)
        \* in a directory: subdirectory subtrees in backend order, then its
        \* files in backend order
        /\ \A d \in dirsIn :
               LET ls == listdir(t, d)
               IN  /\ \A i \in 1..Len(ls.dirs), k \in 1..Len(ls.dirs) :
                          i < k => \A q \in {join(d, ls.dirs[k])} \cup PathsBelow(t, join(d, ls.dirs[k])) :
                                       Pos(names, join(d, ls.dirs[i])) < Pos(names, q)
                   /\ \A i \in 1..Len(ls.dirs), j \in 1..Len(ls.files) :
                          Pos(names, join(d, ls.dirs[i])) < Pos(names, join(d, ls.files[j]))
                   /\ \A j \in 1..Len(ls.files), k \in 1..Len(ls.files) :
                          j < k => Pos(names, join(d, ls.files[j])) < Pos(names, join(d, ls.files[k]))

\* root/{a.txt, sub/{b.txt}}
ExampleTree == [dirs |-> <<[dirs |-> <<>>, files |-> 1]>>, files |-> 1]

IndexIn(input, e) == CHOOSE i \in 1..Len(input) : input[i] = e

\* (attribute value, original index) of x is below that of y
PairLess(input, attr, x, y) ==
    \/ x[attr] < y[attr]
    \/ x[attr] = y[attr] /\ IndexIn(input, x) < IndexIn(input, y)

Permutation(a, b) == Len(a) = Len(b) /\ Range(a) = Range(b)

\* C6: ascending sort orders the Entries by (attribute value, original
\* index), so equal values keep their input order; the descending result is
\* the reversal of the ascending one, ties reversed too.
C6_SortByPairAndReverse ==
    /\ (out.op \in {"sort_by_attr", "sort_listing"} /\ out.attr # "None" /\ out.order # "desc")
           => /\ Permutation(out.files, out.input)
              /\ \A i \in 1..Len(out.files), j \in 1..Len(out.files) :
                     i < j => PairLess(out.input, out.attr, out.files[i], out.files[j])
    /\ (out.op = "sort_listing" /\ out.attr # "None" /\ out.order = "desc")
           => /\ Permutation(out.files, out.input)
              /\ \A i \in 1..Len(out.files), j \in 1..Len(out.files) :
                     i < j => PairLess(out.input, out.attr, out.files[j], out.files[i])

\* C6 witness: a descending sort of three Entries, two of them with equal
\* attribute values, given in an order that is neither ascending nor
\* descending.
C6_Witness ==
    /\ out.op = "sort_listing"
    /\ out.attr # "None"
    /\ out.order = "desc"
    /\ Len(out.input) = 3
    /\ \E i \in 1..3, j \in 1..3 : i # j /\ out.input[i][out.attr] = out.input[j][out.attr]
    /\ out.files # out.input
    /\ out.files # Reverse(out.input)

\* C10: once exists(), is_folder, filetype, filesize or date has returned a
\* value, every later access returns that value and queries default_storage
\* no more, whatever happened to the storage in between.
C10_LazyFieldsFrozen ==
    (acc.op = "get" /\ acc.had)
    => /\ acc.exc = "none"
       /\ acc.sval = first[acc.field].sval
       /\ acc.nval = first[acc.field].nval
       /\ acc.queries = 0

\* C10 witness: filesize is read again after the storage came to hold
\* something of another size, or nothing, at the path.
C10_Witness ==
    /\ acc.op = "get"
    /\ acc.field = "filesize"
    /\ acc.had
    /\ first["filesize"].nval # None
    /\ default_storage.kind = "none" \/ default_storage.size # first["filesize"].nval

ListOf(op) == IF op = "delete_versions" THEN versions.versions ELSE versions.admin_versions

\* C11: delete_versions() and delete_admin_versions() return without
\* raising; their backend calls are one delete per path of the list handed
\* out, in list order, also after a delete that raised; the Entry's own path
\* is not among them; and every listed version that was there and removable
\* is gone afterwards.
C11_VersionsBestEffort ==
    acc.op \in {"delete_versions", "delete_admin_versions"}
    => /\ acc.exc = "none"
       /\ Len(calls) = Len(ListOf(acc.op))
       /\ \A i \in 1..Len(calls) :
              /\ calls[i].fn = "delete"
              /\ calls[i].path = ListOf(acc.op)[i]
              /\ calls[i].path # fo.path
              /\ calls[i].was = "file" => vstore[calls[i].path] = "none"

\* C11 witness: a delete that raised, or one that found nothing, followed by
\* the delete of a version that was there, which is gone.
C11_Witness ==
    /\ acc.op = "delete_versions"
    /\ acc.exc = "none"
    /\ Len(calls) = 2
    /\ calls[1].path # calls[2].path
    /\ calls[1].raised \/ calls[1].was = "none"
    /\ calls[2].was = "file"
    /\ vstore[calls[2].path] = "none"

\* C12: an is_empty access that returns a value returns true exactly when
\* the Entry's is_folder value is true and the backend listing of its path
\* has no subdirectory and no file; for an Entry whose is_folder value is
\* false it returns false and issues no listdir query.
C12_IsEmptyIffEmptyFolder ==
    (acc.op = "get" /\ acc.field = "is_empty" /\ acc.exc = "none")
    => /\ acc.sval \in {"True", "False"}
       /\ acc.sval = "True"
              <=> (/\ fo._is_folder_stored = "True"
                   /\ StorageListdir(default_storage, answers).dirs = 0
                   /\ StorageListdir(default_storage, answers).files = 0)
       /\ fo._is_folder_stored # "True" => (acc.sval = "False" /\ calls = <<>>)
       /\ fo._is_folder_stored = "True" => calls = <<[fn |-> "listdir", path |-> fo.path]>>

\* C12 witness: a folder holding a subdirectory and no file is not empty.
C12_Witness ==
    /\ acc.op = "get" /\ acc.field = "is_empty" /\ acc.exc = "none"
    /\ fo._is_folder_stored = "True"
    /\ answers.dirs > 0 /\ answers.files = 0
    /\ acc.sval = "False"

C15_DecodeErrorTranslated ==
    (acc.op = "get" /\ acc.field = "is_empty" /\ fo._is_folder_stored = "True")
    => LET x == StorageListdir(default_storage, answers).exc
       IN  /\ x = "UnicodeDecodeError"
                  => (acc.exc = "FileSystemEncodingChanged" /\ acc.sval = "")
           /\ x \notin {"none", "UnicodeDecodeError"} => (acc.exc = x /\ acc.sval = "")
           /\ x = "none" => acc.exc = "none"

\* C15 witness: the decode error came out as FileSystemEncodingChanged.
C15_Witness ==
    /\ acc.op = "get" /\ acc.field = "is_empty"
    /\ answers.exc = "UnicodeDecodeError"
    /\ acc.exc = "FileSystemEncodingChanged"
    /\ calls = <<[fn |-> "listdir", path |-> fo.path]>>

IsSet(n) == n # None /\ n # Missing

\* the files_* method of a counter
MethodOf(op) ==
    CASE op = "results_listing_total" -> "files_listing_total"
      [] op = "results_walk_total" -> "files_walk_total"
      [] op = "results_listing_filtered" -> "files_listing_filtered"
      [] op = "results_walk_filtered" -> "files_walk_filtered"

\* C13: in every state, for each of the four counts: after its files_*
\* method returned, the count is the length of the collection returned; a
\* call that changes the count sets it to the length of the collection that
\* method computes in that call; and results_* on a set count returns it
\* unchanged, with no backend query and no change to the Listing, whatever
\* filter_func, sorting_by and sorting_order have become.
C13_CountsAreLastLengths ==
    \A op \in CounterOps :
        /\ (last.op = MethodOf(op) /\ last.exc = "none")
               => CacheOf(op, self) = Len(last.files)
        /\ CacheOf(op, self) # CacheOf(op, last.pre)
               => (/\ FilesOf(op, last.pre, tree).exc = "none"
                   /\ CacheOf(op, self) = Len(FilesOf(op, last.pre, tree).files))
        /\ (last.op = op /\ IsSet(CacheOf(op, last.pre)))
               => (/\ last.exc = "none"
                   /\ last.n = CacheOf(op, last.pre)
                   /\ self = last.pre
                   /\ last.listdirs = <<>> /\ last.isdirs = 0)

\* C13 witness: a filtered count set under one filter_func is returned
\* unchanged after filter_func was changed.
C13_Witness ==
    /\ prev.op = "set_filter_func"
    /\ last.op = "results_listing_filtered"
    /\ IsSet(last.pre._results_listing_filtered)
    /\ last.n = last.pre._results_listing_filtered
    /\ IsSet(self._results_listing_total)

\* C16: delete() issues exactly one backend call, on the Entry's own path:
\* rmtree when the Entry's is_folder value (cached or just queried) is true,
\* delete otherwise.
C16_DeleteOneCall ==
    acc.op \in {"rmtree", "delete"}
    => /\ fo._is_folder_stored \in {"True", "False"}
       /\ calls = <<[fn |-> IF fo._is_folder_stored = "True" THEN "rmtree" ELSE "delete",
                     path |-> fo.path]>>
       /\ acc.op = calls[1].fn

\* C16 witness: the cached is_folder value decided, against what was at the
\* path when delete() ran.
C16_Witness ==
    /\ acc.op = "rmtree"
    /\ acc.queries = 0
    /\ acc.sval = "file"
    /\ calls = <<[fn |-> "rmtree", path |-> fo.path]>>

\* C19: for an Entry that exists in the backend, date returns the backend
\* modification time as a timestamp, and datetime returns the calendar value
\* of the Entry's date, for every timestamp, 0 included; datetime is None
\* only when date is None.
C19_DatetimeOfEveryDate ==
    /\ (acc.op = "get" /\ acc.field = "date" /\ acc.exc = "none" /\ acc.queries > 0
            /\ fo._exists_stored = "True")
           => acc.nval = mktime_timetuple(default_storage.mtime)
    /\ (acc.op = "get" /\ acc.field = "datetime" /\ acc.exc = "none")
           => /\ fo._date_stored # None
                     => (acc.sval = "datetime" /\ acc.nval = fo._date_stored)
              /\ acc.sval = "None" => fo._date_stored = None

\* the directories of the subtree at p, p included
DirsBelow(t, p) == {p} \cup {q \in PathsBelow(t, p) : isdir(t, q)}

\* C17: one walk() on a folder issues exactly one listdir query for each
\* directory of the subtree, the root included, none for a file and none
\* twice; and the isdir query on the Listing's path is issued at most once
\* over the Listing's lifetime: only while no answer is stored, and the
\* answer stays stored afterwards.
C17_OneListdirPerDirectory ==
    /\ (last.op = "walk" /\ isdir(tree, last.pre.path))
           => /\ last.exc = "none"
              /\ Range(last.listdirs) = DirsBelow(tree, last.pre.path)
              /\ Len(last.listdirs) = Cardinality(DirsBelow(tree, last.pre.path))
    /\ last.op \in {"walk", "listing"}
           => /\ last.isdirs = IF last.pre._is_folder_stored = "None" THEN 1 ELSE 0
              /\ self._is_folder_stored # "None"
              /\ last.pre._is_folder_stored # "None"
                     => self._is_folder_stored = last.pre._is_folder_stored
              /\ prev.isdirs + last.isdirs <= 1

\* C17 witness: a second walk() over a tree with nested directories and
\* files: one listdir query per directory, no isdir query.
C17_Witness ==
    /\ last.op = "walk"
    /\ prev.op = "walk"
    /\ last.pre.path = Directory
    /\ Len(tree.dirs) = 1 /\ tree.dirs[1].dirs # <<>> /\ tree.files > 0
    /\ Len(last.listdirs) >= 3
    /\ last.isdirs = 0
    /\ prev.isdirs = 1

\* C20: a files_listing_total() call that raised leaves the entry cache
\* unset; and a files_listing_total() call that returns normally on a folder
\* path returns exactly one Entry per name of the backend listing, also after
\* an earlier call on the same Listing raised.
C20_FailedCallLeavesNoCache ==
    last.op = "files_listing_total"
    => /\ last.exc # "none" => ~self._fileobjects_total.set
       /\ (last.exc = "none" /\ isdir(tree, last.pre.path))
              => /\ Len(last.files) = Len(EntriesOf(tree, last.pre.path))
                 /\ Range(last.files) = Range(EntriesOf(tree, last.pre.path))

\* a directory reachable from the Listing's path is reachable from itself:
\* the link lies in the subtree walked and leads to its own directory or to
\* a directory above it
HasCycle ==
    /\ link.set
    /\ isdir(tree, self.path)
    /\ IsPrefix(self.path, link.at)
    /\ IsPrefix(link.to, link.at)

\* C18: walk() on a structure without a cycle comes to its end and returns
\* (the list walk() is specified to return, when there is no link at all);
\* on a structure with a cycle below the Listing's path it never returns a
\* result: the recursion goes on until the interpreter ends it.
C18_WalkReturnsUnlessCycle ==
    /\ (~HasCycle) ~> (pc = "done")
    /\ [](HasCycle => pc # "done")
    /\ [](~HasCycle => pc # "RecursionError")
    /\ []((pc = "done" /\ ~link.set) => filelisting = walk(last.pre, tree).names)

\* C18 witness: the walk over a cycle was ended by the recursion limit, after
\* going through the link more than once.
C18_Witness ==
    /\ HasCycle
    /\ pc = "RecursionError"
    /\ link.at # link.to

====
